---------------------------- MODULE Spec2Model ----------------------------
(***************************************************************************)
(* A model of the MemoryTauAPI client library: the query-continuation      *)
(* engine, page resolution with redirects, the lazily cached page facets   *)
(* and the memoized facade calls.  The remote MediaWiki server is the      *)
(* environment: its responses are the inputs of the actions.               *)
(*                                                                         *)
(* Python values are encoded as follows.  An attribute that may be absent  *)
(* or None is a sequence of length 0 (absent / None) or 1 (<<v>>).  A dict *)
(* of continuation tokens is a natural number: 0 is the empty dict {} the  *)
(* loop starts from (and the absence of a "continue" key in a response),   *)
(* 1..MaxToken are the non-empty blocks a server sends.                    *)
(***************************************************************************)
EXTENDS Integers, Sequences, FiniteSets, TLC

VARIABLES
    \* ---- continuation engine (MemoryTauPage.__continued_query) ----
    cqMode,          \* "prop" | "generator": is "generator" in query_params
    cqPc,            \* "running": inside the while loop; "done": generator exhausted
    last_continue,   \* the local last_continue (0 = {})
    last_len_pages,  \* the local last_len_pages
    cqYielded,       \* everything the generator has yielded, in order
    cqSent,          \* the continuation block merged into each request sent
    cqHistory,       \* the responses the server has returned, in order
    \* ---- page resolution (MemoryTauPage.__init__ / __load) ----
    wiki,            \* the remote wiki: the kind of every title
    cur,             \* the latest constructor call and its outcome
    prev,            \* the call before it, when the latest call follows up on it
    \* ---- the client facade (MemoryTauAPI) and its memoized calls ----
    cache,           \* the cache of @memorized: argument tuple -> stored result
    firstResult,     \* per argument tuple, what the wrapped method first returned
    last,            \* the latest memoized call: its key, what it did and returned
    plain,           \* the latest call of random, languages or category_members
    served,          \* the server's answer to the request of the latest facade call
    \* ---- the facets of one resolved page ----
    fpage,           \* the MemoryTauPage object
    access,          \* the latest facet access: the attribute before it, its requests, its value
    drained,         \* what the latest backlinks drain yielded
    \* ---- a Config object ----
    config,          \* the Config object
    supplied,        \* the rate_limit values given to it: the constructor's, then the setter's
    \* ---- the text functions of a page ----
    text             \* the latest application: the function, its input and its result

cqVars == <<cqMode, cqPc, last_continue, last_len_pages, cqYielded, cqSent, cqHistory>>
rsVars == <<wiki, cur, prev>>
fcVars == <<cache, firstResult, last, plain, served>>
ftVars == <<fpage, access, drained>>
cfVars == <<config, supplied>>
txVars == <<text>>

vars == <<cqVars, rsVars, fcVars, ftVars, cfVars, txVars>>

-----------------------------------------------------------------------------
(* Bounds of the model. *)

\* The number of distinct non-empty continuation blocks the server may send.
MaxToken == 2

\* The number of requests of one continued query the model follows.
MaxRequests == 3

-----------------------------------------------------------------------------
(* Helpers. *)

RECURSIVE Flatten(_)
Flatten(ss) == IF ss = <<>> THEN <<>> ELSE Head(ss) \o Flatten(Tail(ss))

Last(s) == s[Len(s)]

-----------------------------------------------------------------------------
(* The server's side of a continued query. *)

\* The data arrays / page maps one response may carry, in server order.
QueryItemLists == {<<>>, <<1>>, <<1, 2>>, <<2, 1>>}

\* One response to a request of a continued query:
\*   hasQuery  "query" in request
\*   cont      request["continue"], 0 when the key is absent
\*   npages    len(request["query"]["pages"])
\*   hasProp   prop in pages[self.pageid]          (property queries)
\*   items     pages[self.pageid][prop], or pages.values() of a generator query
QueryResponses(mode) ==
    { [hasQuery |-> FALSE, cont |-> c, npages |-> 0, hasProp |-> FALSE, items |-> <<>>] :
        c \in 0..MaxToken }
    \cup
    IF mode = "generator"
    THEN { [hasQuery |-> TRUE, cont |-> c, npages |-> Len(it), hasProp |-> FALSE, items |-> it] :
             c \in 0..MaxToken, it \in QueryItemLists }
    ELSE { [hasQuery |-> TRUE, cont |-> c, npages |-> 1, hasProp |-> TRUE, items |-> it] :
             c \in 0..MaxToken, it \in QueryItemLists }
         \cup
         { [hasQuery |-> TRUE, cont |-> c, npages |-> 1, hasProp |-> FALSE, items |-> <<>>] :
             c \in 0..MaxToken }

-----------------------------------------------------------------------------
(* MemoryTauPage.__continued_query, one iteration of its while loop per     *)
(* step.  The loop state is [pc, last_continue, last_len_pages, yielded].   *)

\* The server-stall guard of the loop.
StallGuardNever(lc, ll, resp) == FALSE

StallGuard(lc, ll, resp) ==
    /\ resp.cont # 0
    /\ lc = resp.cont
    /\ ll = resp.npages

\* What one response contributes to the generator's output.
YieldFromDropsLast(mode, resp) ==
    IF resp.cont = 0 THEN <<>>
    ELSE IF mode = "generator" THEN resp.items
    ELSE IF resp.hasProp THEN resp.items ELSE <<>>

YieldFrom(mode, resp) ==
    IF mode = "generator"
    THEN resp.items
    ELSE IF resp.hasProp THEN resp.items ELSE <<>>

\* lines 176-177: every request is a new copy of the base parameters, updated
\* with last_continue ({} before the first response).
RequestContinueNone(lc) == 0

RequestContinue(lc) == lc

\* One pass through the body of `while True`, given the response to its request.
ContinuedQueryIter(mode, st, resp) ==
    IF ~resp.hasQuery
    THEN [st EXCEPT !.pc = "done"]
    ELSE IF StallGuard(st.last_continue, st.last_len_pages, resp)
    THEN [st EXCEPT !.pc = "done"]
    ELSE IF resp.cont = 0
    THEN [st EXCEPT !.pc = "done", !.yielded = st.yielded \o YieldFrom(mode, resp)]
    ELSE [pc |-> "running",
          last_continue |-> resp.cont,
          last_len_pages |-> resp.npages,
          yielded |-> st.yielded \o YieldFrom(mode, resp)]


-----------------------------------------------------------------------------
(* The remote wiki, as the identity query sees it.                          *)

None == <<>>
Some(v) == <<v>>

\* Canonical page titles; "a" is a spelling the server normalizes to "A".
Titles == {"A", "B", "C"}
RequestTitles == Titles \cup {"a"}
NormalizeTitle(t) == IF t = "a" THEN "A" ELSE t

\* The numeric page id of a title, and the title an id belongs to.
PageIdOf(t) == CASE t = "A" -> 1 [] t = "B" -> 2 [] t = "C" -> 3
TitleOfId(n) == CHOOSE t \in Titles : PageIdOf(t) = n
PageNumbers == {PageIdOf(t) : t \in Titles}

\* A page id as Python holds it: the int a caller passes, or the str key of
\* the "pages" object of a decoded JSON response.
IntId(n) == [ty |-> "int", n |-> n]
StrId(n) == [ty |-> "str", n |-> n]

UrlOf(t) == <<"url", t>>

\* A wiki gives every title a kind: an ordinary page, a disambiguation page, a
\* missing page, or a redirect to another title.  Redirects point forward in
\* the order A, B, C, so chains of two hops exist and cycles do not.
PageKind(k) == [kind |-> k, to |-> "C"]
RedirectTo(t) == [kind |-> "redirect", to |-> t]

Wikis ==
    { [A |-> a, B |-> b, C |-> c] :
        a \in {PageKind("page"), PageKind("missing"), RedirectTo("B"), RedirectTo("C")},
        b \in {PageKind("page"), PageKind("missing"), RedirectTo("C")},
        c \in {PageKind("page"), PageKind("missing"), PageKind("disambiguation")} }

\* The server resolves redirects ("redirects": ""): the hops from title t on.
RECURSIVE RedirectChain(_, _)
RedirectChain(w, t) ==
    IF w[t].kind = "redirect"
    THEN <<[from |-> t, to |-> w[t].to]>> \o RedirectChain(w, w[t].to)
    ELSE <<>>

RECURSIVE FinalTitle(_, _)
FinalTitle(w, t) == IF w[t].kind = "redirect" THEN FinalTitle(w, w[t].to) ELSE t

\* The entry of query["pages"] for the page the query ends at.
PageEntry(w, t) ==
    IF w[t].kind = "missing"
    THEN [key |-> StrId(0 - 1), missing |-> TRUE, title |-> Some(t),
          fullurl |-> None, pageprops |-> None]
    ELSE [key |-> StrId(PageIdOf(t)), missing |-> FALSE, title |-> Some(t),
          fullurl |-> Some(UrlOf(t)),
          pageprops |-> IF w[t].kind = "disambiguation"
                        THEN Some({"disambiguation"}) ELSE None]

\* The decoded answer to the identity query of __load, asked by "titles" or by
\* "pageids".  normalized / redirects are <<>> when the key is absent.
IdentityResponse(w, by, v) ==
    IF by = "titles"
    THEN [normalized |-> IF NormalizeTitle(v) # v
                         THEN <<[from |-> v, to |-> NormalizeTitle(v)]>> ELSE <<>>,
          redirects |-> RedirectChain(w, NormalizeTitle(v)),
          page |-> PageEntry(w, FinalTitle(w, NormalizeTitle(v)))]
    ELSE IF v.n \in PageNumbers /\ w[TitleOfId(v.n)].kind # "missing"
    THEN [normalized |-> <<>>,
          redirects |-> RedirectChain(w, TitleOfId(v.n)),
          page |-> PageEntry(w, FinalTitle(w, TitleOfId(v.n)))]
    ELSE [normalized |-> <<>>, redirects |-> <<>>,
          page |-> [key |-> StrId(v.n), missing |-> TRUE, title |-> None,
                    fullurl |-> None, pageprops |-> None]]

\* The list items of the markup the disambiguation query returns, as
\* find_all("li") gives them: whether the joined class names of the item contain
\* "tocsection", and the title attribute of each link in it (None when the
\* link has no such attribute).
LiItem(toc, links) == [toc |-> toc, links |-> links]
DisambiguationMarkups ==
    { <<>>,
      <<LiItem(TRUE, <<Some("A")>>), LiItem(FALSE, <<Some("B"), Some("A")>>),
        LiItem(FALSE, <<>>)>>,
      <<LiItem(FALSE, <<Some("A")>>), LiItem(FALSE, <<Some("B")>>)>>,
      <<LiItem(FALSE, <<Some("B")>>), LiItem(FALSE, <<None, Some("A")>>),
        LiItem(FALSE, <<Some("A")>>)>> }

\* What the server answers to the single-shot facet queries.  A text the
\* client looks into is a sequence of characters; the empty str is <<>>.
ContentTexts == {<<>>, <<"t", "e", "x", "t">>}
ContentAnswers == { [extract |-> x, revid |-> 7, parentid |-> 6] : x \in ContentTexts }
SummaryAnswers == {<<>>, <<"i", "n", "t", "r", "o">>}
FacetAnswers == [content : ContentAnswers, summary : SummaryAnswers]

-----------------------------------------------------------------------------
(* The MemoryTauPage object.                                                *)

\* `not getattr(self, "_x", False)`: Python truthiness of a str or list
\* attribute that may be None.  None, "" and [] are all false.
Truthy(a) == a # None /\ a[1] # <<>>

\* An object before __init__ has run: no attribute is set.
BlankPage ==
    [title |-> None, original_title |-> None, pageid |-> None, url |-> None,
     pageprops |-> None, disambiguate_pages |-> None,
     _markdown |-> None, _backlinks |-> None, _backlinks_ids |-> None,
     _categories |-> None, _content |-> None, _html |-> None, _links |-> None,
     _parent_id |-> None, _references |-> None, _revision_id |-> None,
     _sections |-> None, _summary |-> None]

\* __init__, lines 26-37: every facet attribute is reset to None.
ResetFacets(self) ==
    [self EXCEPT !._markdown = None, !._backlinks = None, !._backlinks_ids = None,
                 !._categories = None, !._content = None, !._html = None,
                 !._links = None, !._parent_id = None, !._references = None,
                 !._revision_id = None, !._sections = None, !._summary = None]

\* The outcome of a call: the object, the exception raised (None if the call
\* returned), and the requests sent, in order.
Outcome(self, exc, reqs) == [self |-> self, exc |-> exc, reqs |-> reqs]
Raise(type, arg) == Some([type |-> type, arg |-> arg])

Request(kind, by, v) == [kind |-> kind, by |-> by, v |-> v]

\* self.request(params) raises (a timeout, a connection error) and returns nothing.
RequestRaises == Raise("RequestError", None)

\* __title_query_param
TitleQueryParam(self) ==
    IF self.title # None
    THEN [by |-> "titles", v |-> self.title[1]]
    ELSE [by |-> "pageids", v |-> self.pageid[1]]

\* The content property.
ContentFacet(self, reqs, ans, fail) ==
    IF Truthy(self._content)
    THEN Outcome(self, None, reqs)
    ELSE LET p == TitleQueryParam(self)
             sent == Append(reqs, Request("content", p.by, p.v))
         IN  IF fail = 1
             THEN Outcome(self, RequestRaises, sent)
             ELSE Outcome([self EXCEPT !._content = Some(ans.extract),
                                      !._revision_id = Some(ans.revid),
                                      !._parent_id = Some(ans.parentid)],
                          None, sent)

\* The summary property.
SummaryFacet(self, reqs, ans, fail) ==
    IF Truthy(self._summary)
    THEN Outcome(self, None, reqs)
    ELSE LET p == TitleQueryParam(self)
             sent == Append(reqs, Request("summary", p.by, p.v))
         IN  IF fail = 1
             THEN Outcome(self, RequestRaises, sent)
             ELSE Outcome([self EXCEPT !._summary = Some(ans)], None, sent)

\* revision_id and parent_id, lines 282 and 295: the attributes they test,
\* "_revid" and "_parentid", are assigned nowhere, so getattr gives False.
HasRevid(self) == FALSE
HasParentid(self) == FALSE

\* The revision_id property: it reads the content property for its side effect.
RevisionIdFacet(self, reqs, ans, fail) ==
    IF HasRevid(self) THEN Outcome(self, None, reqs) ELSE ContentFacet(self, reqs, ans, fail)

\* The parent_id property.
ParentIdFacet(self, reqs, ans, fail) ==
    IF HasParentid(self) THEN Outcome(self, None, reqs) ELSE ContentFacet(self, reqs, ans, fail)

\* __init__, lines 48-58: the preload loop.  "content" and "summary" are
\* properties of the class; "images", the third name, is no attribute of it, so
\* getattr raises AttributeError there.  The two requests of a preload return.
PreloadFacets(self, reqs, fa) ==
    LET c == ContentFacet(self, reqs, fa.content, 0)
        s == SummaryFacet(c.self, c.reqs, fa.summary, 0)
    IN  Outcome(s.self, Raise("AttributeError", Some("images")), s.reqs)

\* __load, lines 156-158: the list items the filter keeps.
FilteredLisKeepsToc(li) == TRUE
FilteredLis(li) == ~li.toc

\* __load, lines 159-162: the loop over the kept items.  items[0]["title"]
\* raises KeyError for a link without a title; the list then holds what was
\* appended before.
RECURSIVE DisambiguationLoop(_, _)
DisambiguationLoop(lis, acc) ==
    IF lis = <<>> THEN [titles |-> acc, exc |-> None]
    ELSE IF FilteredLis(Head(lis)) /\ Head(lis).links # <<>>
    THEN IF Head(lis).links[1] = None
         THEN [titles |-> acc, exc |-> Raise("KeyError", Some("title"))]
         ELSE DisambiguationLoop(Tail(lis), Append(acc, Head(lis).links[1][1]))
    ELSE DisambiguationLoop(Tail(lis), acc)

DisambiguationTitles(lis) == DisambiguationLoop(lis, <<>>)

\* __load, lines 134-162: the attributes are filled in from the page entry.
PopulatedTitleKeepsRequested(self, page) ==
    IF self.title # None THEN self.title ELSE page.title

PopulatedTitle(self, page) == page.title

Populate(self, reqs, resp, markup) ==
    LET page == resp.page
        s1 == [self EXCEPT !.pageid = Some(page.key),
                           !.title = PopulatedTitle(self, page),
                           !.url = page.fullurl,
                           !.pageprops = Some(IF page.pageprops # None
                                              THEN page.pageprops[1] ELSE {}),
                           !.disambiguate_pages = Some(<<>>)]
    IN  IF page.pageprops # None /\ "disambiguation" \in page.pageprops[1]
        THEN LET d == DisambiguationTitles(markup) IN
             Outcome([s1 EXCEPT !.disambiguate_pages = Some(d.titles)],
                     d.exc,
                     Append(reqs, Request("disambiguation", "pageids", s1.pageid[1])))
        ELSE Outcome(s1, None, reqs)

\* The condition of the redirect branch of __load, line 107.
IsRedirected(resp) ==
    /\ resp.redirects # <<>>
    /\ resp.page.title # Some(resp.redirects[1].to)

\* The error raised for a missing page, lines 99-103.
MissingErrorTitleOnly(self) == Raise("PageError", [title |-> self.title, pageid |-> None])

MissingError(self) ==
    IF self.title # None
    THEN Raise("PageError", [title |-> self.title, pageid |-> None])
    ELSE Raise("PageError", [title |-> None, pageid |-> self.pageid])

\* __load, lines 124-129: the restart `self.__init__(redirects["to"],
\* redirect=..., preload=..., request=self.request)`.  The first parameter of
\* __init__ after self is `request` (line 16), so the positional argument and
\* the keyword both bind `request`: Python raises TypeError at the call, before
\* the body of __init__ runs.
RestartInit(self, reqs, to, redirect, preload, env) ==
    Outcome(self, Raise("TypeError", Some("request")), reqs)

\* __load.  env carries the server: the wiki, the disambiguation markup and
\* the answers to the facet queries.  Page ids are positive, so the test
\* `not getattr(self, "pageid", None)` is the absence of the attribute.
PageLoad(self, reqs, redirect, preload, env) ==
    LET by == IF self.pageid = None THEN "titles" ELSE "pageids"
        v == IF self.pageid = None THEN self.title[1] ELSE self.pageid[1]
        resp == IdentityResponse(env.wiki, by, v)
        reqs1 == Append(reqs, Request("identity", by, v))
        page == resp.page
    IN  IF page.missing
        THEN Outcome(self, MissingError(self), reqs1)
        ELSE IF IsRedirected(resp)
        THEN IF redirect
             THEN LET redirects == resp.redirects[1]
                      normOk == resp.normalized = <<>>
                                \/ Some(resp.normalized[1].from) = self.title
                      from_title ==
                          IF resp.normalized # <<>> THEN resp.normalized[1].to
                          ELSE IF self.title # None THEN self.title[1]
                          ELSE redirects.from
                  IN  IF ~normOk \/ redirects.from # from_title
                      THEN Outcome(self, Raise("AssertionError", None), reqs1)
                      ELSE LET r == RestartInit(self, reqs1, redirects.to,
                                                redirect, preload, env)
                           IN  IF r.exc # None THEN r
                               ELSE Populate(r.self, r.reqs, resp, env.markup)
             ELSE Outcome(self,
                          Raise("RedirectError",
                                IF self.title # None THEN self.title ELSE page.title),
                          reqs1)
        ELSE Populate(self, reqs1, resp, env.markup)

\* __init__
\* __init__, lines 43-44: neither a title nor a pageid was given.
NeitherGivenAsPageError(self) ==
    Outcome(self, Raise("PageError", [title |-> None, pageid |-> None]), <<>>)

NeitherGiven(self) == Outcome(self, Raise("ValueError", None), <<>>)

PageInit(self0, reqs, title, pageid, redirect, preload, original_title, env) ==
    LET self1 == ResetFacets(self0) IN
    IF title # None
    THEN LET self2 == [self1 EXCEPT !.title = title,
                                    !.original_title =
                                        IF original_title # "" THEN Some(original_title)
                                        ELSE title]
             r == PageLoad(self2, reqs, redirect, preload, env)
         IN  IF r.exc = None /\ preload THEN PreloadFacets(r.self, r.reqs, env.facets) ELSE r
    ELSE IF pageid # None
    THEN LET self2 == [self1 EXCEPT !.pageid = pageid]
             r == PageLoad(self2, reqs, redirect, preload, env)
         IN  IF r.exc = None /\ preload THEN PreloadFacets(r.self, r.reqs, env.facets) ELSE r
    ELSE LET r == NeitherGiven(self1) IN Outcome(r.self, r.exc, reqs \o r.reqs)

\* MemoryTauPage(request, title, pageid, redirect, preload): a new object.
NewPage(title, pageid, redirect, preload, env) ==
    PageInit(BlankPage, <<>>, title, pageid, redirect, preload, "", env)

\* __eq__
PageEq(p, q) ==
    /\ p.pageid = q.pageid
    /\ p.title = q.title
    /\ p.url = q.url

-----------------------------------------------------------------------------
(* The facets drained through __continued_query, and the parse queries.     *)

\* The generator run to exhaustion against the responses the server gives, in
\* order: what it yields and how many requests it sends.
\* `fail` is the number of the request at which self.request raises instead
\* of returning (0: every request returns); the exception leaves the generator
\* and the comprehension that consumes it.
RECURSIVE DrainFrom(_, _, _, _, _)
DrainFrom(mode, st, script, n, fail) ==
    IF st.pc = "done" \/ script = <<>>
    THEN [yielded |-> st.yielded, nreq |-> n, exc |-> None]
    ELSE IF n + 1 = fail
    THEN [yielded |-> st.yielded, nreq |-> n + 1, exc |-> RequestRaises]
    ELSE DrainFrom(mode, ContinuedQueryIter(mode, st, Head(script)), Tail(script), n + 1, fail)

Drain(mode, script, fail) ==
    DrainFrom(mode,
              [pc |-> "running", last_continue |-> 0, last_len_pages |-> 0, yielded |-> <<>>],
              script, 0, fail)

\* The requests of a drain, appended to the log.
RECURSIVE AppendTimes(_, _, _)
AppendTimes(reqs, r, n) == IF n = 0 THEN reqs ELSE AppendTimes(Append(reqs, r), r, n - 1)

\* [... for link in links if "pageid" in link]
RECURSIVE WithPageid(_)
WithPageid(links) ==
    IF links = <<>> THEN <<>>
    ELSE (IF Head(links).pageid # None THEN <<Head(links)>> ELSE <<>>) \o WithPageid(Tail(links))

StartsWith(s, p) == Len(s) >= Len(p) /\ SubSeq(s, 1, Len(p)) = p

\* references: add_protocol
HttpPrefix == <<"h", "t", "t", "p">>
AddProtocol(url) == IF StartsWith(url, HttpPrefix) THEN url ELSE HttpPrefix \o <<":">> \o url

\* categories: re.sub(r"^Category:", "", x) removes one leading "Category:".
CategoryPrefix == <<"C", "a", "t", "e", "g", "o", "r", "y", ":">>
StripCategory(x) ==
    IF StartsWith(x, CategoryPrefix) THEN SubSeq(x, Len(CategoryPrefix) + 1, Len(x)) ELSE x

\* The references property.
ReferencesFacet(self, reqs, script, fail) ==
    IF Truthy(self._references)
    THEN Outcome(self, None, reqs)
    ELSE LET d == Drain("prop", script, fail)
             p == TitleQueryParam(self)
             sent == AppendTimes(reqs, Request("extlinks", p.by, p.v), d.nreq)
         IN  IF d.exc # None
             THEN Outcome(self, d.exc, sent)
             ELSE Outcome([self EXCEPT !._references =
                              Some([i \in 1..Len(d.yielded) |-> AddProtocol(d.yielded[i].star)])],
                          None, sent)

\* A links property that would store what was drained before the exception.
LinksFacetStoresPartial(self, reqs, script, fail) ==
    IF Truthy(self._links)
    THEN Outcome(self, None, reqs)
    ELSE LET d == Drain("prop", script, fail)
             p == TitleQueryParam(self)
             sent == AppendTimes(reqs, Request("links", p.by, p.v), d.nreq)
         IN  Outcome([self EXCEPT !._links =
                          Some([i \in 1..Len(d.yielded) |-> d.yielded[i].title])],
                     d.exc, sent)

\* The links property.
LinksFacet(self, reqs, script, fail) ==
    IF Truthy(self._links)
    THEN Outcome(self, None, reqs)
    ELSE LET d == Drain("prop", script, fail)
             p == TitleQueryParam(self)
             sent == AppendTimes(reqs, Request("links", p.by, p.v), d.nreq)
         IN  IF d.exc # None
             THEN Outcome(self, d.exc, sent)
             ELSE Outcome([self EXCEPT !._links =
                              Some([i \in 1..Len(d.yielded) |-> d.yielded[i].title])],
                          None, sent)

\* The categories property.
CategoriesFacet(self, reqs, script, fail) ==
    IF Truthy(self._categories)
    THEN Outcome(self, None, reqs)
    ELSE LET d == Drain("prop", script, fail)
             p == TitleQueryParam(self)
             sent == AppendTimes(reqs, Request("categories", p.by, p.v), d.nreq)
         IN  IF d.exc # None
             THEN Outcome(self, d.exc, sent)
             ELSE Outcome([self EXCEPT !._categories =
                              Some([i \in 1..Len(d.yielded) |-> StripCategory(d.yielded[i].title)])],
                          None, sent)

\* backlinks, lines 373-374: the titles of the drained entries, and the ids of
\* the entries that have a "pageid".
BacklinkTitles(links) == [i \in 1..Len(links) |-> links[i].title]

BacklinkIdsOfAll(links) ==
    [i \in 1..Len(links) |-> IF links[i].pageid # None THEN links[i].pageid[1] ELSE 0]

BacklinkIds(links) ==
    [i \in 1..Len(WithPageid(links)) |-> WithPageid(links)[i].pageid[1]]

\* The backlinks property.
BacklinksFacet(self, reqs, script, fail) ==
    IF Truthy(self._backlinks)
    THEN Outcome(self, None, reqs)
    ELSE LET d == Drain("generator", script, fail)
             p == TitleQueryParam(self)
             sent == AppendTimes(reqs, Request("backlinks", p.by, p.v), d.nreq)
         IN  IF d.exc # None
             THEN Outcome(self, d.exc, sent)
             ELSE Outcome([self EXCEPT !._backlinks = Some(BacklinkTitles(d.yielded)),
                                      !._backlinks_ids = Some(BacklinkIds(d.yielded))],
                          None, sent)

\* The backlinks_ids property: it reads the backlinks property when its own
\* attribute is false.
BacklinksIdsFacet(self, reqs, script, fail) ==
    IF Truthy(self._backlinks_ids)
    THEN Outcome(self, None, reqs)
    ELSE BacklinksFacet(self, reqs, script, fail)

\* The sections property: one action=parse request.
SectionsFacet(self, reqs, ans, fail) ==
    IF Truthy(self._sections)
    THEN Outcome(self, None, reqs)
    ELSE LET p == IF self.title # None
                  THEN [by |-> "page", v |-> self.title[1]]
                  ELSE [by |-> "pageid", v |-> self.pageid[1]]
             sent == Append(reqs, Request("sections", p.by, p.v))
         IN  IF fail = 1
             THEN Outcome(self, RequestRaises, sent)
             ELSE Outcome([self EXCEPT !._sections = Some([i \in 1..Len(ans) |-> ans[i].line])],
                          None, sent)

\* The html method.
HtmlFacet(self, reqs, ans, fail) ==
    IF Truthy(self._html)
    THEN Outcome(self, None, reqs)
    ELSE LET sent == Append(reqs, Request("html", "page", self.title[1]))
         IN  IF fail = 1
             THEN Outcome(self, RequestRaises, sent)
             ELSE Outcome([self EXCEPT !._html = Some(ans)], None, sent)

\* The markdown method.
MarkdownFacet(self, reqs, ans, fail) ==
    IF Truthy(self._markdown)
    THEN Outcome(self, None, reqs)
    ELSE LET sent == Append(reqs, Request("markdown", "page", self.title[1]))
         IN  IF fail = 1
             THEN Outcome(self, RequestRaises, sent)
             ELSE Outcome([self EXCEPT !._markdown = Some(ans)], None, sent)

\* The attribute a facet is cached in.
FacetAttribute(facet) ==
    CASE facet = "content" -> "_content"
      [] facet = "summary" -> "_summary"
      [] facet = "references" -> "_references"
      [] facet = "links" -> "_links"
      [] facet = "categories" -> "_categories"
      [] facet = "backlinks" -> "_backlinks"
      [] facet = "backlinks_ids" -> "_backlinks_ids"
      [] facet = "sections" -> "_sections"
      [] facet = "html" -> "_html"
      [] facet = "markdown" -> "_markdown"
      [] facet = "revision_id" -> "_revision_id"
      [] facet = "parent_id" -> "_parent_id"

\* ---- what the server answers to the facet queries ----

\* One response of a drained query (see QueryResponses).
PropResponse(cont, items) ==
    [hasQuery |-> TRUE, cont |-> cont, npages |-> 1, hasProp |-> TRUE, items |-> items]
GeneratorResponse(cont, pages) ==
    [hasQuery |-> TRUE, cont |-> cont, npages |-> Len(pages), hasProp |-> FALSE, items |-> pages]
NoPropResponse ==
    [hasQuery |-> TRUE, cont |-> 0, npages |-> 1, hasProp |-> FALSE, items |-> <<>>]

ExtLink(url) == [star |-> url]
RelativeUrl == <<"/", "/", "x">>
HttpUrl == HttpPrefix \o <<":", "/", "/", "y">>
ExtlinksScripts ==
    { <<NoPropResponse>>,
      <<PropResponse(1, <<ExtLink(RelativeUrl)>>), PropResponse(0, <<ExtLink(HttpUrl)>>)>> }

Link(title) == [title |-> title]
LinksScripts ==
    { <<PropResponse(0, <<>>)>>,
      <<PropResponse(1, <<Link("B")>>), PropResponse(0, <<Link("C"), Link("B")>>)>> }

CategoriesScripts ==
    { <<NoPropResponse>>,
      <<PropResponse(1, <<Link(CategoryPrefix \o <<"X">>)>>), PropResponse(0, <<Link(<<"Y">>)>>)>> }

\* A backlinks entry: every entry has a title, not every entry a pageid.
Backlink(title, pageid) == [title |-> title, pageid |-> pageid]
BacklinksScripts ==
    { <<GeneratorResponse(0, <<>>)>>,
      <<GeneratorResponse(0, <<Backlink("B", None), Backlink("C", None)>>)>>,
      <<GeneratorResponse(1, <<Backlink("B", None), Backlink("C", Some(3))>>),
        GeneratorResponse(0, <<Backlink("A", Some(1))>>)>> }

SectionsAnswers == { <<>>, <<[line |-> "S1"], [line |-> "S2"]>> }
HtmlAnswers == { <<>>, <<"<", "p", ">">> }
MarkdownAnswers == { <<>>, <<"'", "'">> }

-----------------------------------------------------------------------------
(* The client facade: MemoryTauAPI.search, suggest and page.                *)

\* The argument tuple of a memoized call.
SearchKey(query, results, suggestion) ==
    [fn |-> "search", query |-> query, results |-> results, suggestion |-> suggestion]
SuggestKey(query) ==
    [fn |-> "suggest", query |-> query, results |-> 0, suggestion |-> FALSE]

\* The calls followed: the search page() makes for title "A", a search with the
\* default arguments, and a suggest.
MemoKeys == {SearchKey("A", 1, TRUE), SearchKey("A", 10, FALSE), SuggestKey("A")}

\* The decoded answer to a list=search request: an error payload, or the titles
\* found and, when the server has one, the suggestion of searchinfo.
TimeoutInfos == {"HTTP request timed out.", "Pool queue is full"}
SearchResponses ==
    { [error |-> Some(info), search |-> <<>>, searchinfo |-> None] :
        info \in {"HTTP request timed out.", "internal_api_error"} }
    \cup
    { [error |-> None, search |-> found, searchinfo |-> sugg] :
        found \in {<<>>, <<"B">>}, sugg \in {None, Some("C")} }

\* What a memoized method returns: search gives the list of titles, or the
\* tuple (titles, suggestion or None); suggest gives the suggestion or None.
Value(titles, suggestion, tuple) ==
    [titles |-> titles, suggestion |-> suggestion, tuple |-> tuple]

\* The result of running a method body: the value returned or the exception
\* raised, and the requests sent.
Returned(value, reqs) == [value |-> Some(value), exc |-> None, reqs |-> reqs]
Raised(type, arg, reqs) == [value |-> None, exc |-> Raise(type, arg), reqs |-> reqs]

\* The body of search, lines 29-61.
SearchBody(query, results, suggestion, raw) ==
    LET reqs == <<Request("search", "srsearch", query)>> IN
    IF raw.error # None
    THEN IF raw.error[1] \in TimeoutInfos
         THEN Raised("HTTPTimeoutError", Some(query), reqs)
         ELSE Raised("MediaWikiAPIException", raw.error, reqs)
    ELSE IF suggestion
    THEN IF raw.searchinfo # None
         THEN Returned(Value(raw.search, raw.searchinfo, TRUE), reqs)
         ELSE Returned(Value(raw.search, None, TRUE), reqs)
    ELSE Returned(Value(raw.search, None, FALSE), reqs)

\* The body of suggest, lines 69-73: raw_result["query"] is read without a
\* look at "error", so an error payload raises KeyError.
SuggestBody(query, raw) ==
    LET reqs == <<Request("suggest", "srsearch", query)>> IN
    IF raw.error # None
    THEN Raised("KeyError", Some("query"), reqs)
    ELSE IF raw.searchinfo # None
    THEN Returned(Value(<<>>, raw.searchinfo, FALSE), reqs)
    ELSE Returned(Value(<<>>, None, FALSE), reqs)

MethodBody(key, raw) ==
    IF key.fn = "search"
    THEN SearchBody(key.query, key.results, key.suggestion, raw)
    ELSE SuggestBody(key.query, raw)

\* @memorized (util.memorized): the cache lookup that decides whether the
\* wrapped method runs.
CacheLookupNever(c, key) == None

CacheLookup(c, key) == c[key]

\* @memorized: a call with a stored result returns it and runs nothing; any
\* other call runs the wrapped method and stores what it returns.  A raised
\* exception passes through and nothing is stored.
Memorized(c, key, raw) ==
    IF CacheLookup(c, key) # None
    THEN [cache |-> c, hit |-> TRUE, res |-> Returned(CacheLookup(c, key)[1], <<>>)]
    ELSE LET res == MethodBody(key, raw) IN
         [cache |-> IF res.exc = None THEN [c EXCEPT ![key] = res.value] ELSE c,
          hit |-> FALSE, res |-> res]

\* The record kept of a memoized call: what the method had first returned for
\* the key before the call, whether the call ran the method, and its result.
MemoCall(key, before, m) ==
    [key |-> Some(key), before |-> before, ran |-> ~m.hit, res |-> m.res]
NoMemoCall ==
    [key |-> None, before |-> None, ran |-> FALSE, res |-> Raised("none", None, <<>>)]

\* page(), lines 129-152.  The result: the outcome of the constructor (or of
\* the error raised before it), the cache after the search, and the search made.
\* Line 150 passes no redirect argument: the constructor's default, True, applies.
FacadePageIdRedirect(redirect) == TRUE

\* page(), lines 151-152: neither a title nor a pageid was given.
FacadeNeitherGiven == Outcome(BlankPage, Raise("ValueError", None), <<>>)

FacadePage(c, title, pageid, auto_suggest, redirect, preload, raw, env) ==
    IF title # None
    THEN IF auto_suggest
         THEN LET m == Memorized(c, SearchKey(title[1], 1, TRUE), raw) IN
              IF m.res.exc # None
              THEN [out |-> Outcome(BlankPage, m.res.exc, m.res.reqs), memo |-> Some(m)]
              ELSE LET results == m.res.value[1].titles
                       suggestion == m.res.value[1].suggestion
                   IN  IF suggestion # None /\ suggestion[1] # ""
                       THEN [out |-> PageInit(BlankPage, m.res.reqs, suggestion, pageid,
                                              redirect, preload, "", env),
                             memo |-> Some(m)]
                       ELSE IF results = <<>>
                       THEN [out |-> Outcome(BlankPage,
                                             Raise("PageError",
                                                   [title |-> title, pageid |-> None]),
                                             m.res.reqs),
                             memo |-> Some(m)]
                       ELSE [out |-> PageInit(BlankPage, m.res.reqs, Some(results[1]), None,
                                              redirect, preload, "", env),
                             memo |-> Some(m)]
         ELSE [out |-> PageInit(BlankPage, <<>>, title, None, redirect, preload, "", env),
               memo |-> None]
    ELSE IF pageid # None
    THEN [out |-> PageInit(BlankPage, <<>>, None, pageid, FacadePageIdRedirect(redirect),
                           preload, "", env),
          memo |-> None]
    ELSE [out |-> FacadeNeitherGiven, memo |-> None]

\* ---- random, languages and category_members: not memoized ----

\* The error payloads of the server: a timeout condition and another error.
ErrorInfos == {"HTTP request timed out.", "internal_api_error"}

\* The decoded answers to list=random, meta=siteinfo and list=categorymembers.
RandomResponses ==
    { [error |-> Some(info), random |-> <<>>] : info \in ErrorInfos }
    \cup { [error |-> None, random |-> t] : t \in {<<"A">>, <<"A", "B">>} }

LanguagesResponses ==
    { [error |-> Some(info), languages |-> <<>>] : info \in ErrorInfos }
    \cup { [error |-> None, languages |-> l] :
             l \in {<<>>, <<[code |-> "en", star |-> "English"],
                            [code |-> "de", star |-> "Deutsch"]>>} }

CategoryMembersResponses ==
    { [error |-> Some(info), categorymembers |-> <<>>] : info \in ErrorInfos }
    \cup { [error |-> None, categorymembers |-> ms] : ms \in {<<>>, <<"B", "C">>} }

\* random(), lines 87-96: request["query"] is read without a look at "error".
RandomBody(pages, raw) ==
    LET reqs == <<Request("random", "rnlimit", pages)>> IN
    IF raw.error # None
    THEN Raised("KeyError", Some("query"), reqs)
    ELSE IF Len(raw.random) = 1
    THEN Returned(raw.random[1], reqs)
    ELSE Returned(raw.random, reqs)

\* languages(), lines 164-168: response["query"] is read without a look at "error".
LanguagesBody(raw) ==
    LET reqs == <<Request("languages", "siprop", "languages")>> IN
    IF raw.error # None
    THEN Raised("KeyError", Some("query"), reqs)
    ELSE Returned([c \in {raw.languages[i].code : i \in 1..Len(raw.languages)} |->
                       LET i == CHOOSE i \in 1..Len(raw.languages) :
                                    /\ raw.languages[i].code = c
                                    /\ \A j \in 1..Len(raw.languages) :
                                           raw.languages[j].code = c => j <= i
                       IN  raw.languages[i].star],
                  reqs)

\* category_members(), lines 183-210.
CategoryMembersBody(title, pageid, cmlimit, cmtype, raw) ==
    IF title # None /\ pageid # None
    THEN Raised("ValueError", Some("only one param can be specified"), <<>>)
    ELSE IF title = None /\ pageid = None
    THEN Raised("ValueError", Some("Either a category or a pageid must be specified"), <<>>)
    ELSE LET reqs == IF title # None
                     THEN <<Request("categorymembers", "cmtitle", <<"Category:", title[1]>>)>>
                     ELSE <<Request("categorymembers", "cmpageid", StrId(pageid[1].n))>>
         IN  IF raw.error # None
             THEN Raised("ValueError", raw.error, reqs)
             ELSE Returned(raw.categorymembers, reqs)

\* The record kept of a call that is not memoized.
PlainCall(op, title, pageid, res) ==
    [op |-> op, title |-> title, pageid |-> pageid, res |-> res]
NoPlainCall == PlainCall("none", None, None, Raised("none", None, <<>>))

-----------------------------------------------------------------------------
(* section(): the text of one section of the content.                       *)

\* str.index(sub, start), positions counted from 1; 0 stands for ValueError.
RECURSIVE IndexFrom(_, _, _)
IndexFrom(s, sub, start) ==
    IF start + Len(sub) - 1 > Len(s) THEN 0
    ELSE IF SubSeq(s, start, start + Len(sub) - 1) = sub THEN start
    ELSE IndexFrom(s, sub, start + 1)

\* str.lstrip(chars), str.rstrip(chars)
RECURSIVE LStrip(_, _)
LStrip(s, chars) ==
    IF s # <<>> /\ Head(s) \in chars THEN LStrip(Tail(s), chars) ELSE s

RECURSIVE RStrip(_, _)
RStrip(s, chars) ==
    IF s # <<>> /\ s[Len(s)] \in chars THEN RStrip(SubSeq(s, 1, Len(s) - 1), chars) ELSE s

\* str.strip(): white space is removed at both ends.
Whitespace == {" ", "\n"}
Strip(s) == RStrip(LStrip(s, Whitespace), Whitespace)

\* "== {} ==".format(section_title)
SectionHeading(section_title) == <<"=", "=", " ">> \o section_title \o <<" ", "=", "=">>
HeadingMarker == <<"=", "=">>

\* line 453: the slice loses leading "=" characters before white space is stripped.
SectionTextKeepsAll(slice) == Strip(slice)

SectionText(slice) == Strip(LStrip(slice, {"="}))

\* section(section_title), on the content of the page.
Section(content, section_title) ==
    LET section == SectionHeading(section_title)
        found == IndexFrom(content, section, 1)
    IN  IF found = 0 THEN None
        ELSE LET index == found + Len(section)
                 next == IndexFrom(content, HeadingMarker, index)
                 next_index == IF next = 0 THEN Len(content) + 1 ELSE next
             IN  Some(SectionText(SubSeq(content, index, next_index - 1)))

\* ---- the texts the functions are applied to ----
Concat3(pieces) == {a \o b \o c : a \in pieces, b \in pieces, c \in pieces}

Urls == Concat3({<<>>, HttpPrefix, <<"s">>, <<":">>, <<"/", "/">>, <<"x">>})

CategoryTitles == Concat3({<<>>, CategoryPrefix, <<"C", "a", "t">>, <<"X">>})

SectionTitles == {<<"t">>, <<"u">>}
Contents ==
    {a \o b : a \in Concat3({<<>>, SectionHeading(<<"t">>), <<"=">>, <<"x">>, <<" ">>}),
              b \in {<<>>, <<"\n">>, <<"=", "=">>, <<"\n", "x", " ", "=", "=", " ", "u">>}}

-----------------------------------------------------------------------------
(* Config: the rate limit.                                                  *)

\* Config.DEFAULT_TIMEOUT (3.0 seconds) and the default user agent.
DEFAULT_TIMEOUT == 3
DEFAULT_USER_AGENT == "mediawikiapi"
API_URL == "https://www.mysidia.org/trek/api.php"

\* The values a caller passes as rate_limit: an int (milliseconds) or a
\* timedelta, held in microseconds as datetime.timedelta holds it.
IntArg(n) == [ty |-> "int", n |-> n]
Timedelta(us) == [ty |-> "timedelta", us |-> us]

\* timedelta(milliseconds=n)
TimedeltaOfMilliseconds(n) == Timedelta(n * 1000)

RateLimitInts == {-1, 0, 10}
RateLimitDeltas == {Timedelta(0), Timedelta(500), Timedelta(10000)}
RateLimitArgs ==
    {None} \cup {Some(IntArg(n)) : n \in RateLimitInts} \cup {Some(d) : d \in RateLimitDeltas}

\* `timeout or DEFAULT`, `user_agent or DEFAULT`: None, 0 and "" are false.
OrDefault(v, falsy, default) == IF v = None \/ v[1] = falsy THEN default ELSE v[1]

\* __init__, lines 21-23: an int becomes a timedelta, anything else is stored
\* as it is.
InitRateLimitStoresArgument(rate_limit) == rate_limit

InitRateLimit(rate_limit) ==
    IF rate_limit # None /\ rate_limit[1].ty = "int"
    THEN Some(TimedeltaOfMilliseconds(rate_limit[1].n))
    ELSE rate_limit

\* Config(user_agent, timeout, rate_limit)
ConfigInit(user_agent, timeout, rate_limit) ==
    [mediawiki_url |-> API_URL,
     rate_limit |-> InitRateLimit(rate_limit),
     timeout |-> OrDefault(timeout, 0, DEFAULT_TIMEOUT),
     user_agent |-> OrDefault(user_agent, "", DEFAULT_USER_AGENT)]

\* The rate_limit setter, lines 52-57.
SetRateLimit(self, rate_limit) ==
    IF rate_limit = None
    THEN [self EXCEPT !.rate_limit = None]
    ELSE IF rate_limit[1].ty = "timedelta"
    THEN [self EXCEPT !.rate_limit = rate_limit]
    ELSE [self EXCEPT !.rate_limit = Some(TimedeltaOfMilliseconds(rate_limit[1].n))]

\* The rate_limit getter.
GetRateLimit(self) == self.rate_limit

-----------------------------------------------------------------------------
(* The specifications: a continued query followed response by response, and *)
(* direct construction of pages against one unchanged wiki.                 *)

Env(w, markup, fa) == [wiki |-> w, markup |-> markup, facets |-> fa]

Call(op, title, pageid, auto_suggest, redirect, preload) ==
    [op |-> op, title |-> title, pageid |-> pageid, auto_suggest |-> auto_suggest,
     redirect |-> redirect, preload |-> preload]

\* The markup the server gave to the disambiguation query of a call: <<>> when
\* the call sent no such query.
MarkupServed(out, markup) ==
    IF \E i \in 1..Len(out.reqs) : out.reqs[i].kind = "disambiguation"
    THEN markup ELSE <<>>

NoCall ==
    [call |-> Call("none", None, None, FALSE, TRUE, FALSE),
     out |-> Outcome(BlankPage, None, <<>>),
     html |-> <<>>]

\* The arguments a caller may pass.
TitleArgs == {None} \cup {Some(t) : t \in RequestTitles}
PageidArgs == {None} \cup {Some(IntId(n)) : n \in PageNumbers}

IdleQuery ==
    /\ cqMode = "prop"
    /\ cqPc = "done"
    /\ last_continue = 0
    /\ last_len_pages = 0
    /\ cqYielded = <<>>
    /\ cqSent = <<>>
    /\ cqHistory = <<>>

IdleFacade ==
    /\ cache = [k \in MemoKeys |-> None]
    /\ firstResult = [k \in MemoKeys |-> None]
    /\ last = NoMemoCall
    /\ plain = NoPlainCall
    /\ served = None

\* No page is held for facet accesses.
NoAccess ==
    [facet |-> "none", before |-> None, sent |-> 0, reqs |-> <<>>, value |-> None,
     exc |-> None]

IdleFacets ==
    /\ fpage = BlankPage
    /\ access = NoAccess
    /\ drained = <<>>

\* A Config built with the defaults, and no text function applied.
IdleConfig ==
    /\ config = ConfigInit(None, None, None)
    /\ supplied = <<None>>

NoText == [fn |-> "none", input |-> <<>>, arg |-> <<>>, out |-> None]
IdleText == text = NoText

InitResolve ==
    /\ wiki \in Wikis
    /\ cur = NoCall
    /\ prev = NoCall

IdleResolve ==
    /\ wiki = [A |-> PageKind("page"), B |-> PageKind("page"), C |-> PageKind("page")]
    /\ cur = NoCall
    /\ prev = NoCall

\* ---- the continued query, step by step ----
CqState == [pc |-> cqPc, last_continue |-> last_continue,
            last_len_pages |-> last_len_pages, yielded |-> cqYielded]

InitQuery ==
    /\ cqMode \in {"prop", "generator"}
    /\ cqPc = "running"
    /\ last_continue = 0
    /\ last_len_pages = 0
    /\ cqYielded = <<>>
    /\ cqSent = <<>>
    /\ cqHistory = <<>>

\* The consumer pulls the generator: one request is sent carrying last_continue,
\* the server answers, and the loop body runs on the answer.
QueryStep ==
    /\ cqPc = "running"
    /\ Len(cqSent) < MaxRequests
    /\ \E resp \in QueryResponses(cqMode) :
         LET st == ContinuedQueryIter(cqMode, CqState, resp) IN
           /\ cqSent' = Append(cqSent, RequestContinue(last_continue))
           /\ cqHistory' = Append(cqHistory, resp)
           /\ cqPc' = st.pc
           /\ last_continue' = st.last_continue
           /\ last_len_pages' = st.last_len_pages
           /\ cqYielded' = st.yielded
    /\ UNCHANGED cqMode

NextQuery == QueryStep /\ UNCHANGED <<rsVars, fcVars, ftVars, cfVars, txVars>>

InitSpecQuery ==
    InitQuery /\ IdleResolve /\ IdleFacade /\ IdleFacets /\ IdleConfig /\ IdleText

SpecQuery == InitSpecQuery /\ [][NextQuery]_vars

\* ---- the continued query against a server that never finishes ----
\* Every response has a "query" section and a continue block.  The facets drain
\* the generator in a list comprehension, which asks for the next item for as
\* long as the generator runs.  The logs keep the latest request, the latest two
\* responses and the items of the latest response, so that a query that never
\* stops is a cycle of states.
StallResponses(mode) == {r \in QueryResponses(mode) : r.hasQuery /\ r.cont # 0}

StallStep ==
    /\ cqPc = "running"
    /\ \E resp \in StallResponses(cqMode) :
         LET st == ContinuedQueryIter(cqMode, [CqState EXCEPT !.yielded = <<>>], resp) IN
           /\ cqSent' = <<RequestContinue(last_continue)>>
           /\ cqHistory' = IF cqHistory = <<>> THEN <<resp>> ELSE <<Last(cqHistory), resp>>
           /\ cqPc' = st.pc
           /\ last_continue' = st.last_continue
           /\ last_len_pages' = st.last_len_pages
           /\ cqYielded' = st.yielded
    /\ UNCHANGED cqMode

NextStall == StallStep /\ UNCHANGED <<rsVars, fcVars, ftVars, cfVars, txVars>>

InitSpecStall ==
    InitQuery /\ IdleResolve /\ IdleFacade /\ IdleFacets /\ IdleConfig /\ IdleText

SpecStall == InitSpecStall /\ [][NextStall]_vars /\ WF_vars(NextStall)

\* ---- page construction ----
\* The server inputs a call can read: the markup only when the wiki has a
\* disambiguation page, the facet answers only when the call preloads.
MarkupsOf(w) ==
    IF \E t \in Titles : w[t].kind = "disambiguation"
    THEN DisambiguationMarkups ELSE {<<>>}
FacetAnswersOf(preload) ==
    IF preload THEN FacetAnswers
    ELSE {[content |-> [extract |-> <<>>, revid |-> 7, parentid |-> 6], summary |-> <<>>]}

\* Constructor calls share no state (every call builds a new object and the
\* wiki does not change), so a scenario is one call and at most one follow-up.

\* MemoryTauPage(request, title=..., pageid=..., redirect=..., preload=...)
Construct ==
    /\ cur.call.op = "none"
    /\ \E title \in TitleArgs, pageid \in PageidArgs, redirect \in BOOLEAN, preload \in BOOLEAN :
       \E markup \in MarkupsOf(wiki), fa \in FacetAnswersOf(preload) :
       \E out \in {NewPage(title, pageid, redirect, preload, Env(wiki, markup, fa))} :
        /\ cur' = [call |-> Call("MemoryTauPage", title, pageid, FALSE, redirect, preload),
                   out |-> out, html |-> MarkupServed(out, markup)]
        /\ prev' = NoCall
        /\ UNCHANGED wiki

\* The same constructor call once more, on a new object.
ConstructAgain ==
    /\ cur.call.op = "MemoryTauPage"
    /\ prev.call.op = "none"
    /\ \E markup \in MarkupsOf(wiki), fa \in FacetAnswersOf(cur.call.preload) :
       \E out \in {NewPage(cur.call.title, cur.call.pageid, cur.call.redirect,
                             cur.call.preload, Env(wiki, markup, fa))} :
        /\ cur' = [call |-> cur.call, out |-> out, html |-> MarkupServed(out, markup)]
        /\ prev' = cur
        /\ UNCHANGED wiki

\* MemoryTauPage(request, pageid=p.pageid, ...) for a page p that was returned.
ConstructByStoredId ==
    /\ cur.call.op = "MemoryTauPage"
    /\ prev.call.op = "none"
    /\ cur.out.exc = None
    /\ \E redirect \in BOOLEAN, preload \in BOOLEAN :
       \E markup \in MarkupsOf(wiki), fa \in FacetAnswersOf(preload) :
       \E out \in {NewPage(None, cur.out.self.pageid, redirect, preload,
                             Env(wiki, markup, fa))} :
        /\ cur' = [call |-> Call("MemoryTauPage", None, cur.out.self.pageid, FALSE, redirect, preload),
                   out |-> out, html |-> MarkupServed(out, markup)]
        /\ prev' = cur
        /\ UNCHANGED wiki

NextResolve ==
    \/ (Construct /\ UNCHANGED <<cqVars, fcVars, ftVars, cfVars, txVars>>)
    \/ (ConstructAgain /\ UNCHANGED <<cqVars, fcVars, ftVars, cfVars, txVars>>)
    \/ (ConstructByStoredId /\ UNCHANGED <<cqVars, fcVars, ftVars, cfVars, txVars>>)

InitSpecResolve ==
    IdleQuery /\ InitResolve /\ IdleFacade /\ IdleFacets /\ IdleConfig /\ IdleText

SpecResolve == InitSpecResolve /\ [][NextResolve]_vars

\* ---- the client facade ----

InitSpecFacade ==
    /\ IdleQuery
    /\ wiki \in Wikis
    /\ cur = NoCall
    /\ prev = NoCall
    /\ IdleFacade
    /\ IdleFacets
    /\ IdleConfig
    /\ IdleText

\* The caller is between two calls: the result of the latest call was dropped.
BetweenCalls == cur = NoCall /\ last = NoMemoCall /\ plain = NoPlainCall

\* The server is asked only when the cache has no result for the key.
NoSearchResponse == [error |-> None, search |-> <<>>, searchinfo |-> None]
SearchResponsesFor(key) == IF cache[key] = None THEN SearchResponses ELSE {NoSearchResponse}

FirstResultAfter(key, m) ==
    IF ~m.hit /\ m.res.exc = None /\ firstResult[key] = None
    THEN [firstResult EXCEPT ![key] = m.res.value]
    ELSE firstResult

\* client.search(query, results, suggestion)
SearchCall ==
    /\ BetweenCalls
    /\ \E key \in {k \in MemoKeys : k.fn = "search"} :
       \E raw \in SearchResponsesFor(key) :
       \E m \in {Memorized(cache, key, raw)} :
        /\ cache' = m.cache
        /\ firstResult' = FirstResultAfter(key, m)
        /\ last' = MemoCall(key, firstResult[key], m)
        /\ served' = IF m.hit THEN None ELSE Some(raw)
        /\ UNCHANGED <<wiki, cur, prev, plain>>

\* client.suggest(query)
SuggestCall ==
    /\ BetweenCalls
    /\ \E key \in {k \in MemoKeys : k.fn = "suggest"} :
       \E raw \in SearchResponsesFor(key) :
       \E m \in {Memorized(cache, key, raw)} :
        /\ cache' = m.cache
        /\ firstResult' = FirstResultAfter(key, m)
        /\ last' = MemoCall(key, firstResult[key], m)
        /\ served' = IF m.hit THEN None ELSE Some(raw)
        /\ UNCHANGED <<wiki, cur, prev, plain>>

\* client.page(title, pageid, auto_suggest, redirect, preload)
PageCall ==
    /\ BetweenCalls
    /\ \E title \in {None, Some("A")}, pageid \in {None, Some(IntId(1))},
          auto_suggest \in BOOLEAN, redirect \in BOOLEAN, preload \in BOOLEAN :
       \E raw \in (IF title # None /\ auto_suggest
                   THEN SearchResponsesFor(SearchKey("A", 1, TRUE))
                   ELSE {NoSearchResponse}),
          markup \in MarkupsOf(wiki), fa \in FacetAnswersOf(preload) :
       \E r \in {FacadePage(cache, title, pageid, auto_suggest, redirect, preload, raw,
                            Env(wiki, markup, fa))} :
         LET key == SearchKey("A", 1, TRUE) IN
         /\ cur' = [call |-> Call("page", title, pageid, auto_suggest, redirect, preload),
                    out |-> r.out, html |-> MarkupServed(r.out, markup)]
         /\ cache' = IF r.memo # None THEN r.memo[1].cache ELSE cache
         /\ firstResult' = IF r.memo # None THEN FirstResultAfter(key, r.memo[1])
                           ELSE firstResult
         /\ last' = IF r.memo # None THEN MemoCall(key, firstResult[key], r.memo[1])
                    ELSE NoMemoCall
         /\ served' = IF r.memo # None /\ ~r.memo[1].hit THEN Some(raw) ELSE None
         /\ UNCHANGED <<wiki, prev, plain>>

\* MemoryTauPage(request, title, pageid, redirect, preload), built by the caller
\* over the client's session.
ConstructCall ==
    /\ BetweenCalls
    /\ \E title \in {None, Some("A")}, pageid \in {None, Some(IntId(1))},
          redirect \in BOOLEAN, preload \in BOOLEAN :
       \E markup \in MarkupsOf(wiki), fa \in FacetAnswersOf(preload) :
        \E out \in {NewPage(title, pageid, redirect, preload, Env(wiki, markup, fa))} :
         /\ cur' = [call |-> Call("MemoryTauPage", title, pageid, FALSE, redirect, preload),
                    out |-> out, html |-> MarkupServed(out, markup)]
         /\ UNCHANGED <<wiki, prev, cache, firstResult, last, plain, served>>

\* client.random(pages)
RandomCall ==
    /\ BetweenCalls
    /\ \E pages \in {1, 2} : \E raw \in RandomResponses :
         /\ plain' = PlainCall("random", None, None, RandomBody(pages, raw))
         /\ served' = Some(raw)
         /\ UNCHANGED <<wiki, cur, prev, cache, firstResult, last>>

\* client.languages()
LanguagesCall ==
    /\ BetweenCalls
    /\ \E raw \in LanguagesResponses :
         /\ plain' = PlainCall("languages", None, None, LanguagesBody(raw))
         /\ served' = Some(raw)
         /\ UNCHANGED <<wiki, cur, prev, cache, firstResult, last>>

\* client.category_members(title, pageid, cmlimit, cmtype)
CategoryMembersCall ==
    /\ BetweenCalls
    /\ \E title \in {None, Some("A")}, pageid \in {None, Some(IntId(1))} :
       \E raw \in CategoryMembersResponses :
       \E res \in {CategoryMembersBody(title, pageid, 10, "page", raw)} :
         /\ plain' = PlainCall("category_members", title, pageid, res)
         /\ served' = IF res.reqs # <<>> THEN Some(raw) ELSE None
         /\ UNCHANGED <<wiki, cur, prev, cache, firstResult, last>>

\* The caller drops the result of the latest call; the cache stays.
DropResult ==
    /\ ~BetweenCalls
    /\ cur' = NoCall
    /\ last' = NoMemoCall
    /\ plain' = NoPlainCall
    /\ served' = None
    /\ UNCHANGED <<wiki, prev, cache, firstResult>>

NextFacade ==
    \/ (SearchCall /\ UNCHANGED <<cqVars, ftVars, cfVars, txVars>>)
    \/ (SuggestCall /\ UNCHANGED <<cqVars, ftVars, cfVars, txVars>>)
    \/ (PageCall /\ UNCHANGED <<cqVars, ftVars, cfVars, txVars>>)
    \/ (ConstructCall /\ UNCHANGED <<cqVars, ftVars, cfVars, txVars>>)
    \/ (RandomCall /\ UNCHANGED <<cqVars, ftVars, cfVars, txVars>>)
    \/ (LanguagesCall /\ UNCHANGED <<cqVars, ftVars, cfVars, txVars>>)
    \/ (CategoryMembersCall /\ UNCHANGED <<cqVars, ftVars, cfVars, txVars>>)
    \/ (DropResult /\ UNCHANGED <<cqVars, ftVars, cfVars, txVars>>)

SpecFacade == InitSpecFacade /\ [][NextFacade]_vars

\* ---- the facets of one page ----

Facets == {"content", "summary", "references", "links", "categories", "backlinks",
           "backlinks_ids", "sections", "html", "markdown", "revision_id", "parent_id"}

\* The answers to the content query of a page that is read again later: the
\* revision may differ from one answer to the next.
RevisedContentAnswers ==
    ContentAnswers \cup { [extract |-> <<>>, revid |-> 9, parentid |-> 8] }

\* What the server would answer to each facet's query at one access.
FacetServers(facet) ==
    CASE facet \in {"content", "revision_id", "parent_id"} -> RevisedContentAnswers
      [] facet = "summary" -> SummaryAnswers
      [] facet = "references" -> ExtlinksScripts
      [] facet = "links" -> LinksScripts
      [] facet = "categories" -> CategoriesScripts
      [] facet = "backlinks" -> BacklinksScripts
      [] facet = "backlinks_ids" -> BacklinksScripts
      [] facet = "sections" -> SectionsAnswers
      [] facet = "html" -> HtmlAnswers
      [] facet = "markdown" -> MarkdownAnswers

\* The requests of one access at which the session may raise: a single-shot
\* facet sends one request, a drain of the scripts above at most two.
DrainedFacets == {"references", "links", "categories", "backlinks", "backlinks_ids"}
FailingRequests(facet) == IF facet \in DrainedFacets THEN {0, 1, 2} ELSE {0, 1}

\* One access of a facet of the page, given the server's answer.
AccessFacet(self, facet, ans, fail) ==
    CASE facet = "content" -> ContentFacet(self, <<>>, ans, fail)
      [] facet = "summary" -> SummaryFacet(self, <<>>, ans, fail)
      [] facet = "references" -> ReferencesFacet(self, <<>>, ans, fail)
      [] facet = "links" -> LinksFacet(self, <<>>, ans, fail)
      [] facet = "categories" -> CategoriesFacet(self, <<>>, ans, fail)
      [] facet = "backlinks" -> BacklinksFacet(self, <<>>, ans, fail)
      [] facet = "backlinks_ids" -> BacklinksIdsFacet(self, <<>>, ans, fail)
      [] facet = "sections" -> SectionsFacet(self, <<>>, ans, fail)
      [] facet = "html" -> HtmlFacet(self, <<>>, ans, fail)
      [] facet = "markdown" -> MarkdownFacet(self, <<>>, ans, fail)
      [] facet = "revision_id" -> RevisionIdFacet(self, <<>>, ans, fail)
      [] facet = "parent_id" -> ParentIdFacet(self, <<>>, ans, fail)

\* The page whose facets are read: MemoryTauPage(request, title="A") on a wiki
\* where "A" is a plain page.
InitSpecFacets ==
    /\ IdleQuery
    /\ IdleResolve
    /\ IdleFacade
    /\ fpage = NewPage(Some("A"), None, TRUE, FALSE,
                       Env(wiki, <<>>, CHOOSE fa \in FacetAnswersOf(FALSE) : TRUE)).self
    /\ access = NoAccess
    /\ drained = <<>>
    /\ IdleConfig
    /\ IdleText

\* page.<facet>, or page.html() / page.markdown()
Access ==
    /\ access.facet = "none"
    /\ \E facet \in Facets : \E ans \in FacetServers(facet), fail \in FailingRequests(facet) :
       \E r \in {AccessFacet(fpage, facet, ans, fail)} :
        /\ fpage' = r.self
        /\ access' = [facet |-> facet,
                      before |-> fpage[FacetAttribute(facet)],
                      sent |-> Len(r.reqs),
                      reqs |-> r.reqs,
                      value |-> r.self[FacetAttribute(facet)],
                      exc |-> r.exc]
        /\ drained' = IF facet \in {"backlinks", "backlinks_ids"} /\ r.reqs # <<>>
                         /\ r.exc = None
                      THEN Drain("generator", ans, 0).yielded
                      ELSE drained

\* The caller is done with the value it read.
Release ==
    /\ access.facet # "none"
    /\ access' = NoAccess
    /\ UNCHANGED <<fpage, drained>>

NextFacets ==
    \/ (Access /\ UNCHANGED <<cqVars, rsVars, fcVars, cfVars, txVars>>)
    \/ (Release /\ UNCHANGED <<cqVars, rsVars, fcVars, cfVars, txVars>>)

SpecFacets == InitSpecFacets /\ [][NextFacets]_vars

\* ---- a Config object and its rate limit ----

\* The number of rate_limit values followed: the constructor's and the setter's.
MaxSupplied == 3

InitSpecConfig ==
    /\ IdleQuery
    /\ IdleResolve
    /\ IdleFacade
    /\ IdleFacets
    /\ IdleText
    /\ \E user_agent \in {None, Some(""), Some("agent")}, timeout \in {None, Some(0), Some(5)},
          rate_limit \in RateLimitArgs :
         /\ config = ConfigInit(user_agent, timeout, rate_limit)
         /\ supplied = <<rate_limit>>

\* config.rate_limit = value
SetterCall ==
    /\ Len(supplied) < MaxSupplied
    /\ \E rate_limit \in RateLimitArgs :
         /\ config' = SetRateLimit(config, rate_limit)
         /\ supplied' = Append(supplied, rate_limit)

NextConfig == SetterCall /\ UNCHANGED <<cqVars, rsVars, fcVars, ftVars, txVars>>

SpecConfig == InitSpecConfig /\ [][NextConfig]_vars

\* ---- the text functions ----

TextCall(fn, input, arg, out) == [fn |-> fn, input |-> input, arg |-> arg, out |-> out]

InitSpecText ==
    /\ IdleQuery
    /\ IdleResolve
    /\ IdleFacade
    /\ IdleFacets
    /\ IdleConfig
    /\ IdleText

\* add_protocol(url), applied by references to every external link
AddProtocolCall ==
    /\ text = NoText
    /\ \E url \in Urls : text' = TextCall("add_protocol", url, <<>>, Some(AddProtocol(url)))

\* re.sub(r"^Category:", "", x), applied by categories to every title
StripCategoryCall ==
    /\ text = NoText
    /\ \E x \in CategoryTitles : text' = TextCall("categories", x, <<>>, Some(StripCategory(x)))

\* page.section(section_title), on a page with the content fetched
SectionCall ==
    /\ text = NoText
    /\ \E content \in Contents, section_title \in SectionTitles :
         text' = TextCall("section", content, section_title, Section(content, section_title))

\* The caller is done with the value.
ForgetText ==
    /\ text # NoText
    /\ text' = NoText

NextText ==
    \/ (AddProtocolCall /\ UNCHANGED <<cqVars, rsVars, fcVars, ftVars, cfVars>>)
    \/ (StripCategoryCall /\ UNCHANGED <<cqVars, rsVars, fcVars, ftVars, cfVars>>)
    \/ (SectionCall /\ UNCHANGED <<cqVars, rsVars, fcVars, ftVars, cfVars>>)
    \/ (ForgetText /\ UNCHANGED <<cqVars, rsVars, fcVars, ftVars, cfVars>>)

SpecText == InitSpecText /\ [][NextText]_vars

-----------------------------------------------------------------------------
(* Claims about the continuation engine. *)

\* The tokens of the continue blocks of the responses so far are fresh: no block
\* is sent twice, and every response has a "query" section.
FreshServer ==
    /\ \A i \in 1..Len(cqHistory) : cqHistory[i].hasQuery
    /\ \A i, j \in 1..Len(cqHistory) :
         (i < j /\ cqHistory[i].cont # 0) => cqHistory[i].cont # cqHistory[j].cont

ServedItems == Flatten([i \in 1..Len(cqHistory) |-> cqHistory[i].items])

\* C1: against a server whose every response but the last carries a fresh continue
\* block, the query yields exactly the served items, each once, in server order,
\* sends one request per response, and stops only at the response without a
\* continue block.
C1_YieldsAllInOrder ==
    FreshServer =>
        /\ cqYielded = ServedItems
        /\ Len(cqSent) = Len(cqHistory)
        /\ (cqPc = "done" => (cqHistory # <<>> /\ Last(cqHistory).cont = 0))

C1_Witness ==
    /\ FreshServer
    /\ cqPc = "done"
    /\ Len(cqHistory) = 3
    /\ cqYielded = <<1, 2, 2, 1, 1>>

\* C2: when a response repeats the continue block and the page count of the
\* response right before it, the engine has stopped: it is done and has sent no
\* request after that response.
RepeatedResponse ==
    /\ Len(cqHistory) >= 2
    /\ Last(cqHistory).hasQuery
    /\ Last(cqHistory).cont # 0
    /\ Last(cqHistory).cont = cqHistory[Len(cqHistory) - 1].cont
    /\ Last(cqHistory).npages = cqHistory[Len(cqHistory) - 1].npages

C2_StopsOnRepeat ==
    RepeatedResponse => (cqPc = "done" /\ Len(cqSent) = Len(cqHistory))

C2_Witness ==
    /\ RepeatedResponse
    /\ cqPc = "done"
    /\ Len(cqSent) = 2

\* C21: the first request of a continued query carries no continue block, every
\* later request carries exactly the continue block of the response right before
\* it, and a response without a "query" section or without a continue block is
\* the last one: the query is done and no request follows.
C21_RequestsCarryPreviousContinue ==
    /\ Len(cqSent) = Len(cqHistory)
    /\ (cqSent # <<>> => cqSent[1] = 0)
    /\ \A i \in 2..Len(cqSent) : cqSent[i] = cqHistory[i - 1].cont
    /\ \A i \in 1..(Len(cqHistory) - 1) : cqHistory[i].hasQuery /\ cqHistory[i].cont # 0
    /\ (cqHistory # <<>> /\ (~Last(cqHistory).hasQuery \/ Last(cqHistory).cont = 0))
           => cqPc = "done"

\* Three requests, the third answered without a continue block.
C21_Witness ==
    /\ cqSent = <<0, 1, 2>>
    /\ Len(cqHistory) = 3
    /\ cqHistory[3].hasQuery
    /\ cqHistory[3].cont = 0
    /\ cqPc = "done"

\* C20: a continued query terminates against every server that never omits the
\* continue block and keeps returning continue blocks it has returned before in
\* the same query (with no more than MaxToken blocks, every server that never
\* omits the block does), also when the repeat is not the same block and page
\* count on two consecutive responses.
C20_StallTerminates == <>(cqPc = "done")

-----------------------------------------------------------------------------
(* Claims about page resolution. *)

IsConstruct(r) ==
    /\ r.call.op = "MemoryTauPage"
    /\ (r.call.title # None \/ r.call.pageid # None)

\* The identity query a constructor call sends first, and the server's answer.
FirstBy(call) == IF call.title # None THEN "titles" ELSE "pageids"
FirstValue(call) == IF call.title # None THEN call.title[1] ELSE call.pageid[1]
FirstResponse(call) == IdentityResponse(wiki, FirstBy(call), FirstValue(call))

\* The title the call asks for, by title or by the id of a page of the wiki.
AskedTitle(call) ==
    IF call.title # None THEN NormalizeTitle(call.title[1]) ELSE TitleOfId(call.pageid[1].n)

\* The call asks for an existing page that is no redirect.
AsksPlainPage(call) == wiki[AskedTitle(call)].kind \in {"page", "disambiguation"}

\* The call asks for a redirect whose chain ends at an existing page.
AsksRedirect(call) ==
    /\ wiki[AskedTitle(call)].kind = "redirect"
    /\ wiki[FinalTitle(wiki, AskedTitle(call))].kind # "missing"

\* C4: with redirect-following enabled, resolving the same redirect source title
\* twice succeeds both times, and both pages carry the title of the redirect's
\* resolved target.
C4_RedirectIdempotent ==
    ( /\ IsConstruct(cur)
      /\ prev.call = cur.call
      /\ cur.call.title # None
      /\ cur.call.redirect
      /\ ~cur.call.preload
      /\ AsksRedirect(cur.call) )
    => LET target == Some(FinalTitle(wiki, AskedTitle(cur.call))) IN
       /\ prev.out.exc = None /\ prev.out.self.title = target
       /\ cur.out.exc = None /\ cur.out.self.title = target

\* C5: when the identity response marks the page missing, the constructor raises
\* PageError carrying the identifier the caller resolved by (the title, else the
\* page id), and the identity request is the only request sent.
C5_MissingRaisesPageError ==
    (IsConstruct(cur) /\ FirstResponse(cur.call).page.missing)
    => /\ cur.out.exc =
            IF cur.call.title # None
            THEN Raise("PageError", [title |-> cur.call.title, pageid |-> None])
            ELSE Raise("PageError", [title |-> None, pageid |-> cur.call.pageid])
       /\ cur.out.reqs = <<Request("identity", FirstBy(cur.call), FirstValue(cur.call))>>

C5_Witness ==
    /\ IsConstruct(cur)
    /\ cur.call.title = None
    /\ FirstResponse(cur.call).page.missing
    /\ cur.out.exc # None
    /\ cur.out.exc[1].type = "PageError"
    /\ Len(cur.out.reqs) = 1

\* C6: resolving an existing, non-redirect title succeeds, and resolving the page
\* id stored on that page succeeds with a page equal to it under __eq__
\* (pageid, title and url).
C6_TitleThenIdEqual ==
    /\ ( /\ IsConstruct(cur)
         /\ cur.call.title # None
         /\ ~cur.call.preload
         /\ AsksPlainPage(cur.call) )
       => ( /\ cur.out.exc = None
            /\ cur.out.self.title = Some(AskedTitle(cur.call))
            /\ cur.out.self.pageid = Some(StrId(PageIdOf(AskedTitle(cur.call)))) )
    /\ ( /\ IsConstruct(prev)
         /\ prev.call.title # None
         /\ ~prev.call.preload
         /\ AsksPlainPage(prev.call)
         /\ cur.call.title = None
         /\ cur.call.pageid = prev.out.self.pageid
         /\ ~cur.call.preload )
       => ( /\ prev.out.exc = None
            /\ cur.out.exc = None
            /\ PageEq(prev.out.self, cur.out.self) )

C6_Witness ==
    /\ IsConstruct(prev)
    /\ prev.call.title = Some("a")
    /\ AsksPlainPage(prev.call)
    /\ cur.call.title = None
    /\ cur.call.pageid = prev.out.self.pageid
    /\ ~cur.call.preload
    /\ cur.out.exc = None
    /\ PageEq(prev.out.self, cur.out.self)
    /\ cur.out.self.title = Some("A")

\* C8: resolving an existing page with preload set succeeds, and every lazy
\* facet of the page returned has been evaluated.
C8_PreloadEvaluatesFacets ==
    ( /\ IsConstruct(cur)
      /\ cur.call.preload
      /\ AsksPlainPage(cur.call) )
    => /\ cur.out.exc = None
       /\ \A f \in {"_content", "_summary", "_references", "_links", "_backlinks",
                    "_categories", "_sections", "_html", "_markdown"} :
            cur.out.self[f] # None

\* C19: with redirect-following enabled, when the identity response reports a
\* redirect whose target differs from the title of the page returned, the
\* constructor restarts with the target and completes: the page has the pageid,
\* the title and the url of the page the chain of redirects ends at.
C19_RedirectRestartCompletes ==
    ( /\ IsConstruct(cur)
      /\ cur.call.redirect
      /\ ~cur.call.preload
      /\ AsksRedirect(cur.call)
      /\ IsRedirected(FirstResponse(cur.call)) )
    => LET final == FinalTitle(wiki, AskedTitle(cur.call)) IN
       /\ cur.out.exc = None
       /\ cur.out.self.title = Some(final)
       /\ cur.out.self.pageid = Some(StrId(PageIdOf(final)))
       /\ cur.out.self.url = UrlOf(final)

-----------------------------------------------------------------------------
(* Claims about the client facade. *)

\* C3: with redirect=False, page() for a redirect source, asked for by title or
\* by page id, raises RedirectError (carrying the requested title when asked by
\* title) and returns no page.
C3_NoRedirectRaisesRedirectError ==
    ( /\ cur.call.op = "page"
      /\ (cur.call.title # None \/ cur.call.pageid # None)
      /\ ~cur.call.redirect
      /\ ~cur.call.auto_suggest
      /\ AsksRedirect(cur.call) )
    => /\ cur.out.exc # None
       /\ cur.out.exc[1].type = "RedirectError"
       /\ (cur.call.title # None => cur.out.exc[1].arg = cur.call.title)

-----------------------------------------------------------------------------
(* Claims about the facets of a page. *)

\* C7: a facet is computed at most once per page: an access of a facet that was
\* computed before sends no request and returns the stored value, whatever the
\* server's result was, the empty list and the empty string included.
C7_FacetComputedOnce ==
    (access.facet # "none" /\ access.before # None)
        => (access.sent = 0 /\ access.value = access.before)

\* C9: whenever backlinks has been computed, backlinks_ids is no longer than
\* backlinks, both come from the same drain, backlinks holds the title of every
\* drained entry and backlinks_ids the ids of exactly the entries that carry
\* one, in the order of the drain.
IsSubsequenceAt(ids, links, at) ==
    /\ Len(at) = Len(ids)
    /\ \A i \in 1..Len(at) : at[i] \in 1..Len(links)
    /\ \A i \in 1..Len(at) : \A j \in 1..Len(at) : i < j => at[i] < at[j]
    /\ \A i \in 1..Len(at) : links[at[i]].pageid = Some(ids[i])
    /\ \A k \in 1..Len(links) :
           links[k].pageid # None => \E i \in 1..Len(at) : at[i] = k

C9_BacklinkIdsWithinBacklinks ==
    fpage._backlinks # None =>
        /\ fpage._backlinks_ids # None
        /\ Len(fpage._backlinks_ids[1]) <= Len(fpage._backlinks[1])
        /\ Len(fpage._backlinks[1]) = Len(drained)
        /\ \A i \in 1..Len(drained) : fpage._backlinks[1][i] = drained[i].title
        /\ \E at \in UNION {[1..n -> 1..Len(drained)] : n \in 0..Len(drained)} :
               IsSubsequenceAt(fpage._backlinks_ids[1], drained, at)

\* A drain of three entries over two responses, one entry without a page id.
C9_Witness ==
    /\ fpage._backlinks # None
    /\ Len(drained) = 3
    /\ Len(fpage._backlinks_ids[1]) = 2
    /\ access.facet = "backlinks_ids"
    /\ access.sent = 2

-----------------------------------------------------------------------------
(* Claims about the arguments and the errors of the facade. *)

\* The latest call was given neither a title nor a pageid.
AsksNothing(call) ==
    /\ call.op \in {"page", "MemoryTauPage"}
    /\ call.title = None
    /\ call.pageid = None

\* C11 (as stated): resolving a page with neither a title nor a page id fails
\* with PageError, through page() and through the constructor.
C11_NeitherRaisesPageError ==
    AsksNothing(cur.call) => (cur.out.exc # None /\ cur.out.exc[1].type = "PageError")

\* C11 (amended): resolving a page with neither a title nor a page id fails with
\* ValueError, through page() and through the constructor, before any request is
\* sent and with no attribute of a page set.
C11_NeitherRaisesValueError ==
    AsksNothing(cur.call) =>
        /\ cur.out.exc = Raise("ValueError", None)
        /\ cur.out.reqs = <<>>
        /\ cur.out.self = BlankPage

C11_Witness ==
    /\ cur.call.op = "MemoryTauPage"
    /\ AsksNothing(cur.call)
    /\ cur.call.preload
    /\ cur.out.exc = Raise("ValueError", None)

\* The exception of the latest facade call (None when it returned).
LatestExc ==
    IF cur.call.op = "page" THEN cur.out.exc
    ELSE IF last.key # None THEN last.res.exc
    ELSE plain.res.exc

\* C12: whenever the server answered the request of a facade operation (search,
\* suggest, random, page, languages, category_members) with an error payload, the
\* operation raises HTTPTimeoutError for a timeout or queue-full condition and
\* otherwise MediaWikiAPIException carrying the server's message.
C12_ServerErrorIsTyped ==
    (served # None /\ served[1].error # None) =>
        /\ LatestExc # None
        /\ IF served[1].error[1] \in TimeoutInfos
           THEN LatestExc[1].type = "HTTPTimeoutError"
           ELSE LatestExc = Raise("MediaWikiAPIException", served[1].error)

\* C15: page() and category_members() given both a title and a page id fail with
\* an invalid-argument error (ValueError) before any request is sent.
C15_BothRejected ==
    /\ (cur.call.op = "page" /\ cur.call.title # None /\ cur.call.pageid # None)
       => ( /\ cur.out.exc # None
            /\ cur.out.exc[1].type = "ValueError"
            /\ cur.out.reqs = <<>> )
    /\ (plain.op = "category_members" /\ plain.title # None /\ plain.pageid # None)
       => ( /\ plain.res.exc # None
            /\ plain.res.exc[1].type = "ValueError"
            /\ plain.res.reqs = <<>> )

-----------------------------------------------------------------------------
(* Claims about Config. *)

\* C13: the rate_limit getter returns what was last supplied, normalised to a
\* duration: None for None, the same duration for a duration, and a duration of
\* n milliseconds (1000 * n microseconds) for the integer n, for the constructor
\* and for the setter alike.
C13_RateLimitReadsBack ==
    LET lastSupplied == supplied[Len(supplied)] IN
    GetRateLimit(config) =
        IF lastSupplied = None THEN None
        ELSE IF lastSupplied[1].ty = "timedelta" THEN lastSupplied
        ELSE Some([ty |-> "timedelta", us |-> 1000 * lastSupplied[1].n])

\* An int given to the constructor, and an int given to the setter after a duration.
C13_Witness ==
    /\ Len(supplied) = 3
    /\ supplied[1] = Some(IntArg(10))
    /\ supplied[2] = Some(Timedelta(500))
    /\ supplied[3] = Some(IntArg(10))
    /\ GetRateLimit(config) = Some(Timedelta(10000))

\* C14: in every reachable Config state the rate limit is unset or a duration
\* that is not negative.
C14_RateLimitNonNegative ==
    GetRateLimit(config) # None =>
        /\ GetRateLimit(config)[1].ty = "timedelta"
        /\ GetRateLimit(config)[1].us >= 0

-----------------------------------------------------------------------------
(* Claims about the text functions. *)

HttpScheme == <<"h", "t", "t", "p", ":">>
HttpsScheme == <<"h", "t", "t", "p", "s", ":">>
HasScheme(url) == StartsWith(url, HttpScheme) \/ StartsWith(url, HttpsScheme)

\* C16: every entry of references begins with http: or https: - a URL without
\* such a scheme is returned with http: put in front, a URL with one unchanged.
C16_ReferencesHaveScheme ==
    text.fn = "add_protocol" =>
        /\ HasScheme(text.out[1])
        /\ text.out[1] = IF HasScheme(text.input) THEN text.input ELSE HttpScheme \o text.input

\* C17: no entry of categories begins with Category:, also when the title starts
\* with the prefix more than once; a title without the prefix is unchanged.
C17_CategoriesWithoutPrefix ==
    text.fn = "categories" =>
        /\ ~StartsWith(text.out[1], CategoryPrefix)
        /\ (~StartsWith(text.input, CategoryPrefix) => text.out[1] = text.input)

\* The places where sub occurs in s.
Occurrences(s, sub) ==
    {i \in 1..Len(s) : i + Len(sub) - 1 <= Len(s) /\ SubSeq(s, i, i + Len(sub) - 1) = sub}
Least(S) == CHOOSE i \in S : \A j \in S : i <= j

\* The text from the end of the first heading `== t ==` to the next heading
\* marker, or to the end of the content.
TextAfterHeading(content, section_title) ==
    LET h == SectionHeading(section_title)
        from == Least(Occurrences(content, h)) + Len(h)
        marks == {i \in Occurrences(content, HeadingMarker) : i >= from}
        to == IF marks = {} THEN Len(content) ELSE Least(marks) - 1
    IN  SubSeq(content, from, to)

\* s without the white space at its two ends.
Trimmed(s) ==
    LET inner == {i \in 1..Len(s) : s[i] \notin Whitespace} IN
    IF inner = {} THEN <<>>
    ELSE SubSeq(s, Least(inner), CHOOSE i \in inner : \A j \in inner : j <= i)

\* s without the "=" characters it starts with.
WithoutLeadingEquals(s) ==
    LET other == {i \in 1..Len(s) : s[i] # "="} IN
    IF other = {} THEN <<>> ELSE SubSeq(s, Least(other), Len(s))

\* C18 (as stated): section(t) returns None when the content has no heading
\* `== t ==`, and otherwise the text between the first such heading and the next
\* heading marker (or the end of the content), trimmed of surrounding white space.
C18_SectionTextTrimmed ==
    text.fn = "section" =>
        IF Occurrences(text.input, SectionHeading(text.arg)) = {}
        THEN text.out = None
        ELSE text.out = Some(Trimmed(TextAfterHeading(text.input, text.arg)))

\* C18 (amended): as stated, except that the "=" characters the text starts with
\* are removed before it is trimmed of white space.
C18_SectionTextWithoutEquals ==
    text.fn = "section" =>
        IF Occurrences(text.input, SectionHeading(text.arg)) = {}
        THEN text.out = None
        ELSE text.out =
                 Some(Trimmed(WithoutLeadingEquals(TextAfterHeading(text.input, text.arg))))

\* A heading followed by text and by a later heading marker.
C18_Witness ==
    /\ text.fn = "section"
    /\ text.arg = <<"t">>
    /\ text.input = SectionHeading(<<"t">>) \o <<"=", " ", "\n", "x", " ", "=", "=", " ", "u">>
    /\ text.out = Some(<<"x">>)

\* C22: revision_id and parent_id have no query of their own.  Reading content,
\* revision_id or parent_id on a page whose content was not fetched sends exactly
\* one content request and gives a set value; once the content was fetched,
\* reading any of the three sends no request and gives the value stored from
\* that content response.
C22_RevisionFromContent ==
    (access.facet \in {"content", "revision_id", "parent_id"} /\ access.exc = None) =>
        IF access.before = None
        THEN /\ access.sent = 1
             /\ access.reqs[1].kind = "content"
             /\ access.value # None
        ELSE /\ access.sent = 0
             /\ access.value = access.before

\* The candidates the claim describes for a markup: the list items that are
\* not table-of-contents items and hold a link, in document order, each mapped
\* to the title of its first link.
ItemsWithLink(markup) == SelectSeq(markup, LAMBDA li : ~li.toc /\ li.links # <<>>)
FirstLinkTitles(markup) ==
    [i \in 1..Len(ItemsWithLink(markup)) |-> ItemsWithLink(markup)[i].links[1][1]]
DisambiguationRequests(reqs) ==
    Cardinality({i \in 1..Len(reqs) : reqs[i].kind = "disambiguation"})
Resolved == IsConstruct(cur) /\ cur.out.exc = None

\* C23: on every successfully resolved page, the disambiguation candidates are
\* empty and no disambiguation request was sent unless the page properties
\* mark the page as a disambiguation page; for a disambiguation page exactly
\* one disambiguation request was sent, it is the last request, and the list
\* holds, in document order, the title of the first link of each list item
\* that is not a table-of-contents item and has a link.
C23_DisambiguationCandidates ==
    Resolved =>
        IF "disambiguation" \in cur.out.self.pageprops[1]
        THEN /\ DisambiguationRequests(cur.out.reqs) = 1
             /\ Last(cur.out.reqs).kind = "disambiguation"
             /\ cur.out.self.disambiguate_pages = Some(FirstLinkTitles(cur.html))
        ELSE /\ DisambiguationRequests(cur.out.reqs) = 0
             /\ cur.out.self.disambiguate_pages = Some(<<>>)

\* A disambiguation page whose markup has a table-of-contents item, an item
\* with two links and an item without a link.
C23_Witness ==
    /\ Resolved
    /\ "disambiguation" \in cur.out.self.pageprops[1]
    /\ Len(cur.html) = 3 /\ cur.html[1].toc /\ cur.html[3].links = <<>>
    /\ cur.out.self.disambiguate_pages = Some(<<"B">>)

-----------------------------------------------------------------------------
(* Claims about a facet access whose request raises. *)

\* Every entry the server holds for a query, over all its responses.
AllEntries(script) == Flatten([i \in 1..Len(script) |-> script[i].items])

\* The list a facet holds after the complete drain of a script.
CompleteList(facet, script) ==
    LET e == AllEntries(script) IN
    CASE facet = "references" -> [i \in 1..Len(e) |-> AddProtocol(e[i].star)]
      [] facet = "links" -> [i \in 1..Len(e) |-> e[i].title]
      [] facet = "categories" -> [i \in 1..Len(e) |-> StripCategory(e[i].title)]
      [] facet = "backlinks" -> [i \in 1..Len(e) |-> e[i].title]

ListFacets == {"references", "links", "categories", "backlinks"}

\* For each list facet, the complete lists of the server's scripts, each with
\* the number of responses it takes.
CompleteDrains ==
    [facet \in ListFacets |->
        { [value |-> Some(CompleteList(facet, script)), sent |-> Len(script)] :
            script \in FacetServers(facet) }]

\* A list facet is unset or holds the complete list of one of the server's scripts.
StoredListsComplete ==
    \A facet \in ListFacets :
        LET a == fpage[FacetAttribute(facet)] IN
        a # None => \E d \in CompleteDrains[facet] : a = d.value

\* The attribute whose truth decides whether an access sends a request.
TestedAttribute(facet) ==
    IF facet \in {"revision_id", "parent_id"} THEN "_content" ELSE FacetAttribute(facet)

\* C24: a facet access in which a request raises leaves the facet as it was
\* (not cached) and the whole page, every other facet and pageid, title and url
\* included, unchanged; no partially drained list is ever stored; an access
\* that sends requests and returns has sent every request of a complete drain
\* and gives the complete list.
C24_FailedAccessChangesNothing ==
    [][ /\ (access'.facet # "none" /\ access'.exc # None) =>
               /\ fpage' = fpage
               /\ access'.sent \in {1, 2}
               /\ access'.value = access'.before
               /\ ~Truthy(fpage'[TestedAttribute(access'.facet)])
        /\ StoredListsComplete'
        /\ (access'.facet \in ListFacets /\ access'.exc = None /\ access'.sent > 0) =>
               \E d \in CompleteDrains[access'.facet] :
                   /\ access'.sent = d.sent
                   /\ access'.value = d.value
      ]_vars

\* The second request of a links drain raised on a page that has other facets
\* cached: one response had been drained, and nothing of it is stored.
C24_Witness ==
    /\ access.facet = "links"
    /\ access.exc # None
    /\ access.sent = 2
    /\ fpage._links = None
    /\ Truthy(fpage._summary)
    /\ Truthy(fpage._backlinks)

=========================================================================
